---- MODULE Spec2Model ----
(***************************************************************************)
(* Model of pytorch/chapter_builders-guide/custom-layer.ipynb: the four    *)
(* custom layers (CenteredLayer, MyLinear, TensorReductionLayer,           *)
(* FourierCoefficientsLayer), the two nn.Sequential pipelines built from   *)
(* them, and the forward calls the notebook makes on them.                 *)
(*                                                                         *)
(* A tensor is a record [shape, data, err]: data is the row-major          *)
(* flattening of the elements, err is "none" for a value and the name of   *)
(* the raised exception otherwise.  Arithmetic is exact: parameters and    *)
(* inputs are integers, the mean is a rational <<num, den>>, and a Fourier *)
(* coefficient is an element of the group ring Z[w], w = exp(-2 pi i / n), *)
(* written as its n integer coefficients.  Floating-point rounding is not  *)
(* modelled.                                                               *)
(***************************************************************************)
EXTENDS Integers, Sequences

\* Bounds of the model.
MaxNumel == 4   \* an input tensor has at most this many elements
MaxVal == 1     \* input elements range over 0..MaxVal (or all over -MaxVal..0), parameters over -MaxVal..MaxVal
MaxDim == 2     \* in_units, units, input_dim, output_dim range over 1..MaxDim
MaxSeed == 3    \* seeds of the random generator range over 0..MaxSeed
LazyUnits == 2  \* out_features of the nn.LazyLinear of the first pipeline (128 in the notebook)

VARIABLES rng, linear, net, lazynet, trl, op, arg, ret, memo, ctor

vars == <<rng, linear, net, lazynet, trl, op, arg, ret, memo, ctor>>

-----------------------------------------------------------------------------
\* Tensors.

T(shape, data) == [shape |-> shape, data |-> data, err |-> "none"]

Raise(kind) == [shape |-> <<>>, data |-> <<>>, err |-> kind]

IsError(t) == t.err # "none"

RECURSIVE Prod(_)
Prod(s) == IF s = <<>> THEN 1 ELSE Head(s) * Prod(Tail(s))

RECURSIVE SumSeq(_)
SumSeq(s) == IF s = <<>> THEN 0 ELSE Head(s) + SumSeq(Tail(s))

Numel(t) == Prod(t.shape)

Max(a, b) == IF a >= b THEN a ELSE b

\* Element [n, i] of a 2-D tensor and [i, j, k] of a 3-D tensor (1-based).
At2(t, n, i) == t.data[(n - 1) * t.shape[2] + i]

At3(t, i, j, k) == t.data[((i - 1) * t.shape[2] + (j - 1)) * t.shape[3] + k]

\* Row and column (1-based) of position p in a 2-D tensor with `cols` columns.
RowOf(p, cols) == ((p - 1) \div cols) + 1

ColOf(p, cols) == ((p - 1) % cols) + 1

-----------------------------------------------------------------------------
\* Exact rationals <<num, den>>, den > 0, in lowest terms; <<0, 0>> is NaN (0/0).

RECURSIVE GCD(_, _)
GCD(a, b) == IF b = 0 THEN a ELSE GCD(b, a % b)

Abs(a) == IF a < 0 THEN -a ELSE a

NaN == <<0, 0>>

IsNaN(r) == r[2] = 0

Rat(n, d) ==
    IF d = 0 THEN NaN
    ELSE LET g == GCD(Abs(n), Abs(d))
             s == IF d < 0 THEN -1 ELSE 1
         IN  <<(s * n) \div g, (s * d) \div g>>

RatOfInt(a) == <<a, 1>>

RatAdd(p, q) ==
    IF IsNaN(p) \/ IsNaN(q) THEN NaN
    ELSE Rat(p[1] * q[2] + q[1] * p[2], p[2] * q[2])

RatSub(p, q) ==
    IF IsNaN(p) \/ IsNaN(q) THEN NaN
    ELSE Rat(p[1] * q[2] - q[1] * p[2], p[2] * q[2])

RatDivInt(p, n) == IF IsNaN(p) THEN NaN ELSE Rat(p[1], p[2] * n)

RECURSIVE RatSum(_)
RatSum(s) == IF s = <<>> THEN RatOfInt(0) ELSE RatAdd(Head(s), RatSum(Tail(s)))

-----------------------------------------------------------------------------
\* torch's random generator: draw k (1-based) of the generator seeded with seed.
\* A linear congruential sequence folded into -MaxVal..MaxVal.

RECURSIVE LcgState(_, _)
LcgState(seed, k) == IF k = 0 THEN seed % 16 ELSE (5 * LcgState(seed, k - 1) + 3) % 16

Draw(seed, k) == ((LcgState(seed, k) \div 2) % (2 * MaxVal + 1)) - MaxVal

\* torch.randn(shape) with the generator at g = [seed, pos]: the tensor drawn.
randn(g, shape) == T(shape, [p \in 1..Prod(shape) |-> Draw(g.seed, g.pos + p)])

\* The generator after drawing a tensor of this shape.
Advance(g, shape) == [g EXCEPT !.pos = @ + Prod(shape)]

-----------------------------------------------------------------------------
\* Tensor operations of torch the layers call.

\* Mutant of mean: the sum divided by len(X), the size of the first dimension.
mean_len(X) == RatDivInt(RatOfInt(SumSeq(X.data)), X.shape[1])

\* X.mean(): the mean over all elements; 0/0 = NaN for a tensor without elements.
mean(X) == RatDivInt(RatOfInt(SumSeq(X.data)), Numel(X))

\* X - m for a 0-dim m: m is broadcast to every element. The shape is kept.
sub_scalar(X, m) == T(X.shape, [p \in 1..Numel(X) |-> RatSub(RatOfInt(X.data[p]), m)])

\* torch.matmul of two 2-D tensors: the inner dimensions must agree.
matmul(X, Wt) ==
    IF Len(X.shape) # 2 \/ Len(Wt.shape) # 2 THEN Raise("RuntimeError")
    ELSE IF X.shape[2] # Wt.shape[1] THEN Raise("ShapeMismatch")
    ELSE LET n == X.shape[1]
             m == X.shape[2]
             k == Wt.shape[2]
         IN  T(<<n, k>>,
               [p \in 1..(n * k) |->
                   SumSeq([i \in 1..m |-> At2(X, RowOf(p, k), i) * At2(Wt, i, ColOf(p, k))])])

\* A + b for a 2-D A and a 1-D b: b is broadcast across the rows of A; the
\* trailing sizes must be equal or one of them 1.
add(A, b) ==
    LET ka == A.shape[2]
        kb == b.shape[1]
        k  == Max(ka, kb)
    IN  IF ka # kb /\ ka # 1 /\ kb # 1 THEN Raise("ShapeMismatch")
        ELSE T(<<A.shape[1], k>>,
               [p \in 1..(A.shape[1] * k) |->
                   At2(A, RowOf(p, k), IF ka = 1 THEN 1 ELSE ColOf(p, k))
                   + b.data[IF kb = 1 THEN 1 ELSE ColOf(p, k)]])

\* Mutant of relu: the activation left out.
relu_identity(A) == A

\* F.relu: max(v, 0) elementwise.
relu(A) == T(A.shape, [p \in 1..Numel(A) |-> Max(A.data[p], 0)])

\* W.T of a 2-D tensor.
transpose(Wt) ==
    LET r == Wt.shape[1]
        c == Wt.shape[2]
    IN  T(<<c, r>>, [p \in 1..(r * c) |-> At2(Wt, ColOf(p, r), RowOf(p, r))])

\* x.unsqueeze(-1) and x.unsqueeze(1) of a 2-D x: a dimension of size 1 is
\* inserted, the elements stay in place.
unsqueeze_last(x) == T(<<x.shape[1], x.shape[2], 1>>, x.data)

unsqueeze_1(x) == T(<<x.shape[1], 1, x.shape[2]>>, x.data)

\* Element [i, j, k] of a 3-D tensor seen through broadcasting: an index into a
\* dimension of size 1 reads its only element.
At3b(t, i, j, k) ==
    At3(t, IF t.shape[1] = 1 THEN 1 ELSE i,
           IF t.shape[2] = 1 THEN 1 ELSE j,
           IF t.shape[3] = 1 THEN 1 ELSE k)

Broadcastable(a, b) == a = b \/ a = 1 \/ b = 1

\* A * B elementwise for two 3-D tensors, with broadcasting.
mul(A, B) ==
    IF \E d \in 1..3 : ~Broadcastable(A.shape[d], B.shape[d]) THEN Raise("ShapeMismatch")
    ELSE LET s == [d \in 1..3 |-> Max(A.shape[d], B.shape[d])]
         IN  T(s, [p \in 1..Prod(s) |->
                     LET i == ((p - 1) \div (s[2] * s[3])) + 1
                         j == (((p - 1) \div s[3]) % s[2]) + 1
                         k == ((p - 1) % s[3]) + 1
                     IN  At3b(A, i, j, k) * At3b(B, i, j, k)])

\* torch.einsum('nij,kij->nk', [R, Wt]): the first operand's dimensions are
\* labelled n, i, j and the second's k, i, j. The sizes of a label must be equal
\* or one of them 1 (it is then broadcast); i and j are summed.
einsum_nij_kij_nk(R, Wt) ==
    IF ~Broadcastable(R.shape[2], Wt.shape[2]) \/ ~Broadcastable(R.shape[3], Wt.shape[3])
    THEN Raise("ShapeMismatch")
    ELSE LET n == R.shape[1]
             k == Wt.shape[1]
             I == Max(R.shape[2], Wt.shape[2])
             J == Max(R.shape[3], Wt.shape[3])
         IN  T(<<n, k>>,
               [p \in 1..(n * k) |->
                   SumSeq([q \in 1..(I * J) |->
                       At3b(R, RowOf(p, k), RowOf(q, J), ColOf(q, J))
                       * At3b(Wt, ColOf(p, k), RowOf(q, J), ColOf(q, J))])])

\* torch.tensor(x, dtype=torch.complex64): every element v becomes v + 0i,
\* written <<v, 0>>.
to_complex(x) == T(x.shape, [p \in 1..Numel(x) |-> <<x.data[p], 0>>])

\* One coefficient of the DFT of a row: sum_k row[k] * w^(j*k), accumulated term
\* by term into the coefficients of w^0 .. w^(n-1) (each a complex <<re, im>>).
RECURSIVE DftAcc(_, _, _, _)
DftAcc(row, j, k, acc) ==
    IF k = Len(row) THEN acc
    ELSE LET e == ((j * k) % Len(row)) + 1
         IN  DftAcc(row, j, k + 1,
                    [acc EXCEPT ![e] = <<@[1] + row[k + 1][1], @[2] + row[k + 1][2]>>])

\* torch.fft.fft of a 2-D complex tensor: the DFT along the last dimension,
\* which must have at least one element.
fft(x) ==
    LET b == x.shape[1]
        n == x.shape[2]
    IN  IF n < 1 THEN Raise("RuntimeError")
        ELSE T(<<b, n>>,
               [p \in 1..(b * n) |->
                   LET r   == RowOf(p, n)
                       row == [k \in 1..n |-> At2(x, r, k)]
                   IN  DftAcc(row, ColOf(p, n) - 1, 0, [e \in 1..n |-> <<0, 0>>])])

\* Mutant of slice_cols: t[:, -h:], the last h columns of every row.
slice_cols_tail(t, h) ==
    LET w == IF h < t.shape[2] THEN h ELSE t.shape[2]
    IN  T(<<t.shape[1], w>>,
          [p \in 1..(t.shape[1] * w) |-> At2(t, RowOf(p, w), t.shape[2] - w + ColOf(p, w))])

\* t[:, :h] of a 2-D tensor: the first h columns of every row.
slice_cols(t, h) ==
    LET w == IF h < t.shape[2] THEN h ELSE t.shape[2]
    IN  T(<<t.shape[1], w>>,
          [p \in 1..(t.shape[1] * w) |-> At2(t, RowOf(p, w), ColOf(p, w))])

-----------------------------------------------------------------------------
\* The layers.

\* Mutant of CenteredLayer.forward: X - X.mean(dim=-1, keepdim=True), the mean
\* of each row subtracted from the row.
CenteredLayer_forward_rowmean(X) ==
    LET c == X.shape[Len(X.shape)]
    IN  T(X.shape,
          [p \in 1..Numel(X) |->
              RatSub(RatOfInt(X.data[p]),
                     Rat(SumSeq([q \in 1..c |-> X.data[(RowOf(p, c) - 1) * c + q]]), c))])

\* Mutant of CenteredLayer.forward: an array without elements is refused.
CenteredLayer_forward_checked(X) ==
    IF Numel(X) = 0 THEN Raise("ValueError") ELSE sub_scalar(X, mean(X))

\* CenteredLayer.forward: X - X.mean().
CenteredLayer_forward(X) == sub_scalar(X, mean(X))

\* MyLinear.__init__: weight and bias drawn from the generator, in this order.
MyLinear_init(g, in_units, units) ==
    [weight |-> randn(g, <<in_units, units>>),
     bias   |-> randn(Advance(g, <<in_units, units>>), <<units>>)]

\* The generator after MyLinear.__init__.
MyLinear_rng(g, in_units, units) == Advance(Advance(g, <<in_units, units>>), <<units>>)

\* Mutant of MyLinear.forward: the bias left out.
MyLinear_forward_nobias(self, X) ==
    LET mm == matmul(X, self.weight)
    IN  IF IsError(mm) THEN mm ELSE relu(mm)

\* MyLinear.forward: relu(matmul(X, weight) + bias).
MyLinear_forward(self, X) ==
    LET mm == matmul(X, self.weight)
    IN  IF IsError(mm) THEN mm
        ELSE LET lin == add(mm, self.bias)
             IN  IF IsError(lin) THEN lin ELSE relu(lin)

\* TensorReductionLayer.__init__.
TensorReductionLayer_init(g, input_dim, output_dim) ==
    [input_dim  |-> input_dim,
     output_dim |-> output_dim,
     W          |-> randn(g, <<input_dim, input_dim, output_dim>>)]

\* TensorReductionLayer.forward.
TensorReductionLayer_forward(self, x) ==
    LET x_i    == unsqueeze_last(x)
        x_j    == unsqueeze_1(x)
        result == mul(x_i, x_j)
    IN  IF IsError(result) THEN result ELSE einsum_nij_kij_nk(result, self.W)

\* Mutant of FourierCoefficientsLayer.forward: the half rounded up.
FourierCoefficientsLayer_forward_ceil(x) ==
    LET f == fft(to_complex(x))
    IN  IF IsError(f) THEN f ELSE slice_cols(f, (f.shape[2] + 1) \div 2)

\* FourierCoefficientsLayer.forward.
FourierCoefficientsLayer_forward(x) ==
    LET f == fft(to_complex(x))
    IN  IF IsError(f) THEN f ELSE slice_cols(f, f.shape[2] \div 2)

\* nn.LazyLinear(LazyUnits) before its first call: no parameters yet.
LazyLinear_init == [in_features |-> 0, weight |-> T(<<LazyUnits, 0>>, <<>>), bias |-> T(<<0>>, <<>>)]

\* nn.LazyLinear on its first call: in_features is taken from the input and the
\* parameters are drawn from the generator; later calls keep them.
LazyLinear_materialize(self, g, X) ==
    IF self.in_features # 0 THEN self
    ELSE [in_features |-> X.shape[2],
          weight      |-> randn(g, <<LazyUnits, X.shape[2]>>),
          bias        |-> randn(Advance(g, <<LazyUnits, X.shape[2]>>), <<LazyUnits>>)]

LazyLinear_rng(self, g, X) ==
    IF self.in_features # 0 THEN g
    ELSE Advance(Advance(g, <<LazyUnits, X.shape[2]>>), <<LazyUnits>>)

\* nn.LazyLinear.forward with materialized parameters: X . weight^T + bias.
LazyLinear_forward(self, X) ==
    LET mm == matmul(X, transpose(self.weight))
    IN  IF IsError(mm) THEN mm ELSE add(mm, self.bias)

\* nn.Sequential(MyLinear, MyLinear).forward: each layer is applied to the
\* output of the one before; an exception ends the call.
RECURSIVE Sequential_forward(_, _)
Sequential_forward(layers, X) ==
    IF layers = <<>> \/ IsError(X) THEN X
    ELSE Sequential_forward(Tail(layers), MyLinear_forward(Head(layers), X))

\* nn.Sequential(nn.LazyLinear, CenteredLayer()).forward.
LazySequential_forward(lazy, X) ==
    LET Y == LazyLinear_forward(lazy, X)
    IN  IF IsError(Y) THEN Y ELSE CenteredLayer_forward(Y)

-----------------------------------------------------------------------------
\* Inputs.

\* All tensors of a shape with elements in 0..MaxVal, and their negations.
Tensors(shape) ==
    {T(shape, [p \in 1..Prod(shape) |-> sign * d[p]]) :
        d \in [1..Prod(shape) -> 0..MaxVal], sign \in {1, -1}}

Shapes1D == {<<n>> : n \in 0..MaxNumel}

Shapes2D == {s \in (1..MaxNumel) \X (0..MaxNumel) : s[1] * s[2] <= MaxNumel}

\* 2-D inputs (batch, m), batch >= 1, the empty trailing axis included.
Inputs2D == UNION {Tensors(s) : s \in Shapes2D}

\* 2-D inputs with at least one element.
InputsNonEmpty2D == {X \in Inputs2D : Numel(X) > 0}

\* Inputs of any shape: 1-D and 2-D, the empty ones included.
InputsAnyShape == Inputs2D \cup UNION {Tensors(s) : s \in Shapes1D}

\* The inputs of the specification that interleaves calls on all layers: one
\* row of m equal non-zero elements, m in 1..MaxDim.
InputsConst == {T(<<1, m>>, [p \in 1..m |-> v]) : m \in 1..MaxDim, v \in 1..MaxVal}

-----------------------------------------------------------------------------
\* State.
\*   rng      torch's global random generator [seed, pos]
\*   linear   the notebook's `linear = MyLinear(in_units, units)`
\*   net      the notebook's `net = nn.Sequential(MyLinear(a, b), MyLinear(b, c))`
\*   lazynet  the nn.LazyLinear of `net = nn.Sequential(nn.LazyLinear(..), CenteredLayer())`
\*   trl      a TensorReductionLayer(input_dim, output_dim)
\*   arg      the input tensor of the call (before the first call: the input at hand)
\*   op, ret  the layer last called and what the call returned or raised
\*   memo     history: the first call made, [op, arg, ret], and whether a call
\*            on another layer or input was made since
\*   ctor     history: the parameters as constructed

NoTensor == T(<<0>>, <<>>)

NoLinear == [weight |-> T(<<0, 0>>, <<>>), bias |-> T(<<0>>, <<>>)]

NoTrl == [input_dim |-> 0, output_dim |-> 0, W |-> T(<<0, 0, 0>>, <<>>)]

NoCall == [op |-> "none", arg |-> NoTensor, ret |-> NoTensor, between |-> FALSE]

Params == [linear |-> linear, net |-> net, trl |-> trl]

\* torch.manual_seed(seed): the generator before anything is drawn.
Gen(seed) == [seed |-> seed, pos |-> 0]

\* What every specification starts with: nothing called yet, X at hand.
InitCall(X) ==
    /\ op = "none"
    /\ arg = X
    /\ ret = NoTensor
    /\ memo = NoCall
    /\ ctor = Params

\* The call `o(X)` returned or raised r.
Return(o, X, r) ==
    /\ op' = o
    /\ arg' = X
    /\ ret' = r

\* layer(X), layer = CenteredLayer().
Call_layer(X) ==
    /\ Return("layer", X, CenteredLayer_forward(X))
    /\ UNCHANGED <<rng, linear, net, lazynet, trl>>

\* net(X), net = nn.Sequential(nn.LazyLinear(LazyUnits), CenteredLayer()).
Call_lazynet(X) ==
    /\ lazynet' = LazyLinear_materialize(lazynet, rng, X)
    /\ rng' = LazyLinear_rng(lazynet, rng, X)
    /\ Return("lazynet", X, LazySequential_forward(lazynet', X))
    /\ UNCHANGED <<linear, net, trl>>

\* Mutant of linear(X): the bias is clipped in place (F.relu_ on self.bias.data)
\* before it is added.
Call_linear_inplace(X) ==
    /\ linear' = [linear EXCEPT !.bias = relu(@)]
    /\ Return("linear", X, MyLinear_forward(linear', X))
    /\ UNCHANGED <<rng, net, lazynet, trl>>

\* linear(X), linear = MyLinear(in_units, units).
Call_linear(X) ==
    /\ Return("linear", X, MyLinear_forward(linear, X))
    /\ UNCHANGED <<rng, linear, net, lazynet, trl>>

\* net(X), net = nn.Sequential(MyLinear(a, b), MyLinear(b, c)).
Call_net(X) ==
    /\ Return("net", X, Sequential_forward(net, X))
    /\ UNCHANGED <<rng, linear, net, lazynet, trl>>

\* TensorReductionLayer(input_dim, output_dim)(x).
Call_trl(X) ==
    /\ Return("trl", X, TensorReductionLayer_forward(trl, X))
    /\ UNCHANGED <<rng, linear, net, lazynet, trl>>

\* FourierCoefficientsLayer()(x).
Call_fourier(X) ==
    /\ Return("fourier", X, FourierCoefficientsLayer_forward(X))
    /\ UNCHANGED <<rng, linear, net, lazynet, trl>>

\* The history variables: ctor never changes, memo keeps the first call.
History ==
    /\ ctor' = ctor
    /\ memo' = IF memo.op = "none"
               THEN [op |-> op', arg |-> arg', ret |-> ret', between |-> FALSE]
               ELSE [memo EXCEPT !.between = @ \/ op' # memo.op \/ arg' # memo.arg]

NoHistory == UNCHANGED <<memo, ctor>>

-----------------------------------------------------------------------------
\* CenteredLayer alone and behind a LazyLinear, on an input of any shape.

InitCentered ==
    /\ \E seed \in 0..MaxSeed : rng = Gen(seed)
    /\ linear = NoLinear
    /\ net = <<>>
    /\ lazynet = LazyLinear_init
    /\ trl = NoTrl
    /\ \E X \in InputsAnyShape : InitCall(X)

NextCentered ==
    \/ Call_layer(arg) /\ NoHistory
    \/ Len(arg.shape) = 2 /\ Numel(arg) > 0 /\ Call_lazynet(arg) /\ NoHistory

SpecCentered == InitCentered /\ [][NextCentered]_vars

\* MyLinear alone and two of them in sequence, on a 2-D input.

InitLinear ==
    /\ \E seed \in 0..MaxSeed, a \in 1..MaxDim, b \in 1..MaxDim, c \in 1..MaxDim :
          LET g0 == Gen(seed)
              g1 == MyLinear_rng(g0, a, b)
              g2 == MyLinear_rng(g1, a, b)
          IN  /\ linear = MyLinear_init(g0, a, b)
              /\ net = <<MyLinear_init(g1, a, b), MyLinear_init(g2, b, c)>>
              /\ rng = MyLinear_rng(g2, b, c)
    /\ lazynet = LazyLinear_init
    /\ trl = NoTrl
    /\ \E X \in InputsNonEmpty2D : InitCall(X)

NextLinear ==
    \/ Call_linear(arg) /\ NoHistory
    \/ Call_net(arg) /\ NoHistory

SpecLinear == InitLinear /\ [][NextLinear]_vars

\* TensorReductionLayer on a 2-D input.

InitTensor ==
    /\ \E seed \in 0..MaxSeed, input_dim \in 1..MaxDim, output_dim \in 1..MaxDim :
          /\ trl = TensorReductionLayer_init(Gen(seed), input_dim, output_dim)
          /\ rng = Advance(Gen(seed), <<input_dim, input_dim, output_dim>>)
    /\ linear = NoLinear
    /\ net = <<>>
    /\ lazynet = LazyLinear_init
    /\ \E X \in InputsNonEmpty2D : InitCall(X)

NextTensor == Call_trl(arg) /\ NoHistory

SpecTensor == InitTensor /\ [][NextTensor]_vars

\* FourierCoefficientsLayer on a 2-D input, the empty trailing axis included.

InitFourier ==
    /\ rng = Gen(0)
    /\ linear = NoLinear
    /\ net = <<>>
    /\ lazynet = LazyLinear_init
    /\ trl = NoTrl
    /\ \E X \in Inputs2D : InitCall(X)

NextFourier == Call_fourier(arg) /\ NoHistory

SpecFourier == InitFourier /\ [][NextFourier]_vars

\* All four layers, called in any order on any of the inputs InputsConst.

Init ==
    /\ \E seed \in 0..MaxSeed, a \in 1..MaxDim, b \in 1..MaxDim :
          LET g1 == MyLinear_rng(Gen(seed), a, b)
          IN  /\ linear = MyLinear_init(Gen(seed), a, b)
              /\ trl = TensorReductionLayer_init(g1, a, b)
              /\ rng = Advance(g1, <<a, a, b>>)
    /\ net = <<>>
    /\ lazynet = LazyLinear_init
    /\ InitCall(NoTensor)

Next ==
    \/ \E X \in InputsConst : Call_layer(X) /\ History
    \/ \E X \in InputsConst : Call_linear(X) /\ History
    \/ \E X \in InputsConst : Call_trl(X) /\ History
    \/ \E X \in InputsConst : Call_fourier(X) /\ History

Spec == Init /\ [][Next]_vars

-----------------------------------------------------------------------------
\* The claims. The sums they state are written with Sigma, independently of the
\* operators the layers are modelled with.

\* f[lo] + ... + f[hi].
RECURSIVE Sigma(_, _, _)
Sigma(f, lo, hi) == IF hi < lo THEN 0 ELSE f[hi] + Sigma(f, lo, hi - 1)

Batch(X) == X.shape[1]

Trailing(X) == X.shape[Len(X.shape)]

Returned == ~IsError(ret)

\* The bilinear form sum_i sum_j W[i,j,k] * x[n,i] * x[n,j] of the exercise.
Bilinear(Wt, x, n, k) ==
    LET d == Wt.shape[1]
    IN  Sigma([i \in 1..d |->
                 Sigma([j \in 1..d |-> At3(Wt, i, j, k) * At2(x, n, i) * At2(x, n, j)], 1, d)],
              1, d)

\* C1: TensorReductionLayer.forward on x of shape (batch, input_dim) returns,
\* without error, an array of shape (batch, output_dim) with
\* y[n,k] = sum_i sum_j W[i,j,k] * x[n,i] * x[n,j].
C1_BilinearForm ==
    (op = "trl" /\ Trailing(arg) = trl.input_dim) =>
        /\ Returned
        /\ ret.shape = <<Batch(arg), trl.output_dim>>
        /\ \A n \in 1..Batch(arg), k \in 1..trl.output_dim :
              At2(ret, n, k) = Bilinear(trl.W, arg, n, k)

\* sum_i X[n,i] * weight[i,k] + bias[k].
Affine(self, X, n, k) ==
    Sigma([i \in 1..self.weight.shape[1] |-> At2(X, n, i) * At2(self.weight, i, k)],
          1, self.weight.shape[1])
    + self.bias.data[k]

\* C2: MyLinear.forward on X of shape (batch, in_units) returns an array of
\* shape (batch, units) with entry [n,k] = max(0, sum_i X[n,i] * weight[i,k] + bias[k]).
C2_LinearRelu ==
    (op = "linear" /\ Trailing(arg) = linear.weight.shape[1]) =>
        /\ Returned
        /\ ret.shape = <<Batch(arg), linear.weight.shape[2]>>
        /\ \A n \in 1..Batch(arg), k \in 1..linear.weight.shape[2] :
              At2(ret, n, k) = Max(0, Affine(linear, arg, n, k))

\* A call of MyLinear on a matching input with a clipped and an unclipped entry.
C2_Witness ==
    /\ op = "linear"
    /\ Trailing(arg) = linear.weight.shape[1]
    /\ Batch(arg) = 2
    /\ \E n \in 1..2, k \in 1..linear.weight.shape[2] : Affine(linear, arg, n, k) < 0
    /\ \E n \in 1..2, k \in 1..linear.weight.shape[2] : At2(ret, n, k) > 0

\* r = a - s/n, for integers a, s and n > 0, by cross-multiplication.
IsDiffOfMean(r, a, s, n) == r[2] > 0 /\ r[1] * n = (a * n - s) * r[2]

\* C3: CenteredLayer.forward on a non-empty x of any shape returns an array of
\* the shape of x in which every element is the element of x minus the mean
\* over all elements of x.
C3_Centered ==
    (op = "layer" /\ Numel(arg) > 0) =>
        /\ Returned
        /\ ret.shape = arg.shape
        /\ Len(ret.data) = Len(arg.data)
        /\ \A p \in 1..Len(arg.data) :
              IsDiffOfMean(ret.data[p], arg.data[p], Sigma(arg.data, 1, Len(arg.data)),
                           Len(arg.data))

\* CenteredLayer called on a 2 x 2 input whose rows have different means.
C3_Witness ==
    /\ op = "layer"
    /\ arg.shape = <<2, 2>>
    /\ arg.data[1] + arg.data[2] # arg.data[3] + arg.data[4]
    /\ Returned

\* C4: the mean over all elements of the output of CenteredLayer is zero, for a
\* direct call on a non-empty x and for CenteredLayer as the last stage of the
\* pipeline behind the LazyLinear.
C4_ZeroMean ==
    (op \in {"layer", "lazynet"} /\ Returned /\ Numel(arg) > 0) =>
        /\ Len(ret.data) > 0
        /\ RatDivInt(RatSum(ret.data), Len(ret.data)) = RatOfInt(0)

\* The pipeline returned an array with a non-zero element.
C4_Witness ==
    /\ op = "lazynet"
    /\ Returned
    /\ ret.shape = <<2, LazyUnits>>
    /\ \E p \in 1..Len(ret.data) : ret.data[p][1] # 0

\* Coefficient j of the unnormalized forward DFT of row r of x, as the
\* coefficients of w^0 .. w^(n-1): that of w^e is the sum of the x[r,k] with
\* j * k = e (mod n).
DftCoefficient(x, r, j) ==
    LET n == x.shape[2]
    IN  [e \in 1..n |->
           <<Sigma([k \in 0..(n - 1) |-> IF (j * k) % n = e - 1 THEN At2(x, r, k + 1) ELSE 0],
                   0, n - 1),
             0>>]

\* C5: FourierCoefficientsLayer.forward on x of shape (batch, n), n >= 2,
\* returns an array of shape (batch, n div 2) whose column j is column j of the
\* length-n DFT of each row; rows stay in order.
C5_LeadingHalf ==
    (op = "fourier" /\ Trailing(arg) >= 2) =>
        /\ Returned
        /\ ret.shape = <<Batch(arg), Trailing(arg) \div 2>>
        /\ Len(ret.data) = Batch(arg) * (Trailing(arg) \div 2)
        /\ \A r \in 1..Batch(arg), j \in 0..((Trailing(arg) \div 2) - 1) :
              At2(ret, r, j + 1) = DftCoefficient(arg, r, j)

\* Two columns returned for n = 4, the second not the first.
C5_Witness ==
    /\ op = "fourier"
    /\ arg.shape = <<1, 4>>
    /\ Returned
    /\ ret.shape = <<1, 2>>
    /\ At2(ret, 1, 1) # At2(ret, 1, 2)

\* C6: every element of the output of MyLinear is >= 0, and the sequence
\* MyLinear(a, b), MyLinear(b, c) on an input of shape (batch, a) returns an
\* array of shape (batch, c) with every element >= 0.
C6_NonNegative ==
    /\ (op \in {"linear", "net"} /\ Returned) => \A p \in 1..Len(ret.data) : ret.data[p] >= 0
    /\ (op = "net" /\ Trailing(arg) = net[1].weight.shape[1]) =>
          /\ Returned
          /\ ret.shape = <<Batch(arg), net[2].weight.shape[2]>>
          /\ Len(ret.data) = Batch(arg) * net[2].weight.shape[2]

\* The sequence returned a positive element although a pre-activation of its
\* first layer was negative.
C6_Witness ==
    /\ op = "net"
    /\ Returned
    /\ \E p \in 1..Len(ret.data) : ret.data[p] > 0
    /\ \E n \in 1..Batch(arg), k \in 1..net[1].weight.shape[2] : Affine(net[1], arg, n, k) < 0

C8_EmptyRejected ==
    (op = "layer" /\ Numel(arg) = 0) => ~Returned

\* C8 as amended: CenteredLayer.forward on an array without elements raises
\* nothing and returns an array of the same shape, without elements.
C8_EmptyReturned ==
    (op = "layer" /\ Numel(arg) = 0) =>
        /\ Returned
        /\ ret.shape = arg.shape
        /\ ret.data = <<>>

\* The layer was called on a 2-D array with an empty trailing axis.
C8_Witness ==
    /\ op = "layer"
    /\ arg.shape = <<2, 0>>
    /\ Returned

\* C9: a forward call of MyLinear or TensorReductionLayer on a 2-D input whose
\* trailing dimension differs from in_units (input_dim) raises a shape mismatch.
C9_MismatchRejected ==
    /\ (op = "linear" /\ Trailing(arg) # linear.weight.shape[1]) => ret.err = "ShapeMismatch"
    /\ (op = "trl" /\ Trailing(arg) # trl.input_dim) => ret.err = "ShapeMismatch"

\* C10: forward calls leave the parameters as constructed, and a call on the
\* layer and input of the first call returns what the first call returned,
\* whatever was called since.
C10_Frame ==
    /\ Params = ctor
    /\ (memo.op # "none" /\ op = memo.op /\ arg = memo.arg) => ret = memo.ret

\* The first call was repeated after at least one other call, on a layer with
\* a parameter that would change were it clipped.
C10_Witness ==
    /\ memo.op = "linear"
    /\ memo.between
    /\ op = "linear"
    /\ arg = memo.arg
    /\ \E p \in 1..Len(linear.bias.data) : linear.bias.data[p] < 0

====
